---- MODULE Spec2Model ----
(***************************************************************************)
(* Model of src/app.py: the options-selection pipeline fetch_options_data  *)
(* and its caller home.                                                    *)
(*                                                                         *)
(* Units.  Prices and strikes are whole dollars.  bid and ask are cents.   *)
(* premium = (bid + ask) / 2 dollars is kept as bid + ask, i.e. in         *)
(* half-cents, so that the floor 0.05 is 10.  Delta thresholds are in      *)
(* percent (0.18 is 18).  A rational is a record [n, d] meaning n / d.     *)
(* A delta value v is kept as the rational q with v = min(1/2, 1/(1 +      *)
(* sqrt(q))), which is exact for the estimator of lines 116-118 and for    *)
(* any percentage in 1..50.                                                *)
(***************************************************************************)
EXTENDS Integers, Sequences, FiniteSets, TLC

VARIABLES
    pc,           \* where the request stands: idle, loop, chains, done or raised
    req,          \* arguments of fetch_options_data
    attempt,      \* loop variable of the retry loop (line 32)
    price,        \* local price (line 48)
    expirations,  \* local expirations (line 53)
    today,        \* time of day of datetime.now() at line 75, in hours
    idx,          \* position of the loop of line 80, 1-based
    all_options,  \* local all_options (line 74)
    ret,          \* the returned pair (data, error)
    nHist,        \* calls of stock.history in this request
    nOpts,        \* reads of stock.options in this request
    nChain,       \* calls of stock.option_chain in this request
    chainFailed,  \* some option_chain call of this request raised
    rawSeen,      \* the provider supplied at least one raw row in this request
    batchIntact,  \* each chain processed in this request gave the contracts
                  \* that its well-formed rows alone give
    malformedSeen,\* a loop of this request went over a malformed row
    age           \* seconds since the last request that returned data, capped

vars == <<pc, req, attempt, price, expirations, today, idx, all_options, ret,
          nHist, nOpts, nChain, chainFailed, rawSeen, batchIntact, malformedSeen, age>>

----------------------------------------------------------------------------
(* Bounds of the model *)

MaxExps == 2          \* longest generated expirations listing
BigRows == 8          \* rows per side of the large chain

(* Program constants *)

max_retries == 3          \* line 31
HorizonDays == 90         \* line 76
MaxChains == 15           \* line 80
PremiumFloor == 10        \* line 113 (0.05 dollars, in half-cents)
MaxOptions == 30          \* line 201
DeltaCapPct == 50         \* line 118 (min(0.5, ...))
TTL == 300                \* cache lifetime of the specification, seconds

BadNum == -1              \* a field float() or int() rejects
BadDate == -1000          \* an expiration string strptime rejects
NoError == ""             \* Python None in the error position
NoData == <<>>            \* Python None in the data position

Min(a, b) == IF a < b THEN a ELSE b
Abs(x) == IF x < 0 THEN -x ELSE x

----------------------------------------------------------------------------
(* Inputs: requests and provider outcomes *)

Tickers == {"SPY"}
DeltaPairs == {<<18, 50>>, <<50, 18>>}
FilterTypes == {"both", "calls", "puts"}
TimesOfDay == {0, 12}
SpotPrices == {10}

Row(strike, bid, ask, delta, volume) ==
    [strike |-> strike, bid |-> bid, ask |-> ask, delta |-> delta, volume |-> volume]

RECURSIVE Repeat(_, _)
Repeat(s, n) == IF n = 0 THEN <<>> ELSE s \o Repeat(s, n - 1)

\* Four rows of equal strike whose premiums differ, two of them tying.
BigBlock(strike) ==
    << Row(strike, 100, 120, 0, 1), Row(strike, 60, 80, 0, 2),
       Row(strike, 100, 120, 0, 3), Row(strike, 110, 120, 0, 4) >>

BigSide(strike) == SubSeq(Repeat(BigBlock(strike), (BigRows + 3) \div 4), 1, BigRows)

Chain(calls, puts) == [kind |-> "ok", calls |-> calls, puts |-> puts]

\* Rows of every kind the filter tells apart: out of the money with equal
\* premiums (the second with a provider delta above its estimate), at the
\* money, malformed strike, below the premium floor, in the money, malformed
\* volume, provider delta below the estimate, and a plain row of a lower
\* premium.
MixedCalls ==
    << Row(12, 100, 120, 0, 5), Row(13, 100, 120, 40, 5),
       Row(10, 100, 120, 0, 5), Row(BadNum, 100, 120, 0, 5),
       Row(13, 4, 5, 0, 5), Row(9, 100, 120, 60, 5),
       Row(13, 100, 120, 0, BadNum), Row(11, 100, 120, 10, 5),
       Row(13, 80, 100, 0, 5) >>

MixedPuts ==
    << Row(8, 100, 120, 0, 5), Row(7, 100, 120, -40, 5),
       Row(10, 100, 120, 0, 5), Row(BadNum, 100, 120, 0, 5),
       Row(7, 4, 5, 0, 5), Row(11, 100, 120, -60, 5),
       Row(7, 100, 120, 0, BadNum), Row(9, 100, 120, -10, 5),
       Row(7, 80, 100, 0, 5) >>

ChainOutcomes ==
    { [kind |-> "raise"],
      Chain(<<>>, <<>>),
      Chain(MixedCalls, MixedPuts),
      Chain(BigSide(13), BigSide(7)) }

\* Expiration strings: a calendar day as its distance in days from today's
\* date, or BadDate.
ExpStrs == {BadDate, 1, 90, 91}

RECURSIVE SeqsUpTo(_, _)
SeqsUpTo(S, n) ==
    IF n = 0 THEN {<<>>}
    ELSE LET shorter == SeqsUpTo(S, n - 1)
         IN  shorter \cup {Append(s, x) : s \in {t \in shorter : Len(t) = n - 1}, x \in S}

\* Sixteen entries: the sixteenth lies beyond the slice of line 80.
LongListing == <<90>> \o Repeat(<<91>>, 13) \o <<1, 90>>

Listings == SeqsUpTo(ExpStrs, MaxExps) \cup {LongListing}

HistOutcomes ==
    {[kind |-> "raise"], [kind |-> "empty"]} \cup {[kind |-> "ok", close |-> p] : p \in SpotPrices}

OptOutcomes ==
    {[kind |-> "raise"]} \cup {[kind |-> "ok", options |-> l] : l \in Listings}

----------------------------------------------------------------------------
(* Pure computations of fetch_options_data *)

\* A limit one day too far.
BeyondLimitLate(k, tod) == k * 24 > (HorizonDays + 1) * 24 + tod

\* Line 83: exp_date > limit, with limit = today + 90 days.  Both sides in
\* hours since today's midnight; exp_date is a midnight.
BeyondLimit(k, tod) == k * 24 > HorizonDays * 24 + tod

\* Line 95: (exp_date - today).days, the floor of the difference in days.
DaysToExp(k, tod) == (k * 24 - tod) \div 24

\* A test that lets a strike equal to the spot price through.
CallMoneynessLoose(strike, spot) == strike >= spot

\* Lines 106 and 149, negated: the row goes on.
CallMoneynessOK(strike, spot) == strike > spot
PutMoneynessOK(strike, spot) == strike < spot

\* Lines 111 and 154, in half-cents.
Premium(bid, ask) == bid + ask

\* Lines 113 and 156, negated.
PremiumOK(premium) == premium >= PremiumFloor

\* Lines 116-118 and 159-161.  With m = |strike - spot| / spot and
\* t = days / 365 the code computes min(0.5, 1 / (1 + m * 10 / sqrt(t)));
\* (m * 10 / sqrt(t))^2 = 100 * 365 * (strike - spot)^2 / (spot^2 * days).
EstimateDelta(strike, spot, days) ==
    [n |-> 100 * 365 * (strike - spot) * (strike - spot), d |-> spot * spot * days]

\* The delta value pct / 100 in the representation of EstimateDelta.
PctDelta(pct) == [n |-> (100 - pct) * (100 - pct), d |-> pct * pct]

\* A row delta that takes the provider's value when there is one.
RowDeltaProvider(row, spot, days) ==
    IF row.delta # 0 THEN PctDelta(Min(Abs(row.delta), DeltaCapPct))
    ELSE EstimateDelta(row.strike, spot, days)

\* Lines 116-118 and 159-161: the delta a row is given is always the
\* estimate; the row's own delta field is never read.
RowDelta(row, spot, days) == EstimateDelta(row.strike, spot, days)

\* delta > pct / 100 (lines 120 and 163).
DeltaExceeds(delta, pct) ==
    /\ pct < DeltaCapPct
    /\ delta.n * pct * pct < (100 - pct) * (100 - pct) * delta.d

\* Calls tested against the ceiling of the puts.
CallCeilingOfPuts(r) == r.max_delta_puts

\* Lines 120 and 163: the ceiling each type is tested against.
CallCeiling(r) == r.max_delta_calls
PutCeiling(r) == r.max_delta_puts

\* Lines 123 and 166: (premium / price) * (365 / days) * 100, in percent.
AnnualReturn(premium, spot, days) == [n |-> premium * 365, d |-> 2 * spot * days]

RatLess(a, b) == a.n * b.d < b.n * a.d

\* float(x) and int(x) raise on a malformed field.
Parses(x) == x # BadNum

\* A row all of whose fields float() and int() accept (lines 105, 109, 110,
\* 135 and 136).
WellFormed(row) ==
    Parses(row.strike) /\ Parses(row.bid) /\ Parses(row.ask) /\ Parses(row.volume)

\* The chain without its malformed rows.
CleanChain(chain) ==
    [chain EXCEPT !.calls = SelectSeq(@, WellFormed), !.puts = SelectSeq(@, WellFormed)]

\* Lines 101 and 144.
WantsCalls(ft) == ft \in {"both", "calls"}
WantsPuts(ft) == ft \in {"both", "puts"}

\* One pass of the body of the loop of line 103 (type "Call") or line 146
\* (type "Put"): the contracts appended for the row, none or one.  seq and
\* raw_delta are bookkeeping of the model: the position at which the
\* contract was collected and the delta field of the row it came from.
RowContracts(type, row, r, spot, k, days, seq) ==
    IF ~Parses(row.strike) THEN <<>>
    ELSE IF ~(IF type = "Call" THEN CallMoneynessOK(row.strike, spot)
                               ELSE PutMoneynessOK(row.strike, spot)) THEN <<>>
    ELSE IF ~Parses(row.bid) \/ ~Parses(row.ask) THEN <<>>
    ELSE IF ~PremiumOK(Premium(row.bid, row.ask)) THEN <<>>
    ELSE IF DeltaExceeds(RowDelta(row, spot, days),
                         IF type = "Call" THEN CallCeiling(r) ELSE PutCeiling(r)) THEN <<>>
    ELSE IF ~Parses(row.volume) THEN <<>>
    ELSE << [type |-> type, strike |-> row.strike, expiration |-> k, days |-> days,
             premium |-> Premium(row.bid, row.ask), bid |-> row.bid, ask |-> row.ask,
             delta |-> RowDelta(row, spot, days),
             annual_return |-> AnnualReturn(Premium(row.bid, row.ask), spot, days),
             volume |-> row.volume, seq |-> seq, raw_delta |-> row.delta] >>

\* A loop that a malformed row ends: its exception is caught outside the
\* loop (lines 140 and 183) and not inside it.
RECURSIVE ProcessRowsAbort(_, _, _, _, _, _, _)
ProcessRowsAbort(type, rows, r, spot, k, days, acc) ==
    IF rows = <<>> THEN acc
    ELSE IF ~WellFormed(Head(rows)) THEN acc
    ELSE ProcessRowsAbort(type, Tail(rows), r, spot, k, days,
                          acc \o RowContracts(type, Head(rows), r, spot, k, days, Len(acc) + 1))

\* The loops of lines 103-139 and 146-182 over the rows of one side.
RECURSIVE ProcessRows(_, _, _, _, _, _, _)
ProcessRows(type, rows, r, spot, k, days, acc) ==
    IF rows = <<>> THEN acc
    ELSE ProcessRows(type, Tail(rows), r, spot, k, days,
                     acc \o RowContracts(type, Head(rows), r, spot, k, days, Len(acc) + 1))

\* The loops that the filter type lets run go over a malformed row.
MalformedIterated(chain, ft) ==
    \/ WantsCalls(ft) /\ \E i \in 1..Len(chain.calls) : ~WellFormed(chain.calls[i])
    \/ WantsPuts(ft) /\ \E i \in 1..Len(chain.puts) : ~WellFormed(chain.puts[i])

\* Lines 100-184: calls first, then puts.
ProcessChain(chain, r, spot, k, days, acc) ==
    LET afterCalls == IF WantsCalls(r.filter_type)
                      THEN ProcessRows("Call", chain.calls, r, spot, k, days, acc)
                      ELSE acc
    IN  IF WantsPuts(r.filter_type)
        THEN ProcessRows("Put", chain.puts, r, spot, k, days, afterCalls)
        ELSE afterCalls

\* A sort that puts x before the elements whose key equals its own.
InsertPosUnstable(s, x, i) ==
    IF \E j \in 1..Len(s) : ~RatLess(x.annual_return, s[j].annual_return)
    THEN CHOOSE j \in 1..Len(s) :
             /\ ~RatLess(x.annual_return, s[j].annual_return)
             /\ \A m \in 1..(j - 1) : RatLess(x.annual_return, s[m].annual_return)
    ELSE Len(s) + 1

\* Line 190: list.sort(key=annual_return, reverse=True), a stable sort.
\* x, which follows every element of the sorted s in the unsorted list, is
\* placed before the first element whose key is less than its own.
RECURSIVE InsertPos(_, _, _)
InsertPos(s, x, i) ==
    IF i > Len(s) THEN i
    ELSE IF RatLess(s[i].annual_return, x.annual_return) THEN i
    ELSE InsertPos(s, x, i + 1)

InsertDesc(s, x) ==
    LET p == InsertPos(s, x, 1)
    IN  SubSeq(s, 1, p - 1) \o <<x>> \o SubSeq(s, p, Len(s))

RECURSIVE SortFrom(_, _, _)
SortFrom(s, i, acc) ==
    IF i > Len(s) THEN acc ELSE SortFrom(s, i + 1, InsertDesc(acc, s[i]))

SortDesc(s) == SortFrom(s, 1, <<>>)

\* Line 201: all_options[:30].
TopOptions(s) == SubSeq(s, 1, Min(MaxOptions, Len(s)))

\* Line 194.
NothingFound(s) == Len(s) = 0

\* A retry test that gives up one attempt early.
ShouldRetryShort(a) == a < max_retries - 2

\* A retry test that is off by one: the last attempt asks for another.
ShouldRetryOffByOne(a) == a < max_retries

\* Lines 41, 56 and 69.
ShouldRetry(a) == a < max_retries - 1

\* Line 80: expirations[:15].
LoopEnd(exps) == Min(Len(exps), MaxChains)

\* An entry that skips the fetch within TTL seconds of a fetch that returned
\* data.
FirstStepCached(a) == IF a < TTL THEN "chains" ELSE "loop"

\* Lines 24-32: the function goes into the fetch loop whatever was fetched
\* before; a is the time since the last call that returned data.
FirstStep(a) == "loop"

\* A chain fetch that raises ends the loop.
AfterChainErrorBreak(i, exps) == LoopEnd(exps) + 1

\* Lines 91-93: a chain fetch that raises ends the pass for that expiration
\* (continue); the loop goes on with the next one.
AfterChainError(i, exps) == i + 1

ErrNoPrice == "No price data found"                       \* line 45
ErrNoOptionsRaised == "No options available (may not have listed options)"  \* line 60
ErrNoOptions == "No options available"                    \* line 63
ErrFetch == "Error fetching data"                         \* line 72
ErrNoMatch == "No options found matching your criteria"   \* line 195

Failure(e) == [data |-> NoData, error |-> e]

----------------------------------------------------------------------------
(* The state machine *)

NoRequest == [ticker |-> "", max_delta_calls |-> 0, max_delta_puts |-> 0, filter_type |-> ""]

Init ==
    /\ pc = "idle"
    /\ req = NoRequest
    /\ attempt = 0
    /\ price = 0
    /\ expirations = <<>>
    /\ today = 0
    /\ idx = 1
    /\ all_options = <<>>
    /\ ret = [data |-> NoData, error |-> NoError]
    /\ nHist = 0
    /\ nOpts = 0
    /\ nChain = 0
    /\ chainFailed = FALSE
    /\ rawSeen = FALSE
    /\ batchIntact = TRUE
    /\ malformedSeen = FALSE
    /\ age = TTL

\* home, lines 512-520: the arguments are read and fetch_options_data is
\* entered (lines 24-32).
Start(t, dp, ft) ==
    /\ pc = "idle"
    /\ pc' = FirstStep(age)
    /\ req' = [ticker |-> t, max_delta_calls |-> dp[1], max_delta_puts |-> dp[2],
               filter_type |-> ft]
    /\ attempt' = 0
    /\ UNCHANGED <<price, expirations, today, idx, all_options, ret,
                   nHist, nOpts, nChain, chainFailed, rawSeen, batchIntact,
                   malformedSeen, age>>

\* What an attempt that cannot go on does: another attempt, or the return
\* of the failure e (lines 41-45, 56-60, 69-72).
RetryOrFail(e) ==
    IF ShouldRetry(attempt)
    THEN \* continue: the next pass, or, the range being used up, the end
         \* of the loop without a return, and line 80 reads the unbound
         \* local expirations
         /\ attempt' = attempt + 1
         /\ pc' = IF attempt + 1 < max_retries THEN "loop" ELSE "raised"
         /\ UNCHANGED ret
    ELSE /\ pc' = "done"
         /\ ret' = Failure(e)
         /\ UNCHANGED attempt

\* One pass of the retry loop, lines 32-72.
Attempt(h, o, tod) ==
    /\ pc = "loop"
    /\ attempt < max_retries
    /\ nHist' = nHist + 1
    /\ UNCHANGED <<req, chainFailed, rawSeen, batchIntact, malformedSeen, age, nChain>>
    /\ \/ /\ h.kind = "raise"                       \* lines 38, 67-72
          /\ RetryOrFail(ErrFetch)
          /\ UNCHANGED <<price, expirations, today, idx, all_options, nOpts>>
       \/ /\ h.kind = "empty"                       \* lines 40-45
          /\ RetryOrFail(ErrNoPrice)
          /\ UNCHANGED <<price, expirations, today, idx, all_options, nOpts>>
       \/ /\ h.kind = "ok"                          \* lines 48-65
          /\ price' = h.close
          /\ nOpts' = nOpts + 1
          /\ \/ /\ o.kind = "raise"                 \* lines 55-60
                /\ RetryOrFail(ErrNoOptionsRaised)
                /\ UNCHANGED <<expirations, today, idx, all_options>>
             \/ /\ o.kind = "ok"                    \* lines 62-63
                /\ Len(o.options) = 0
                /\ pc' = "done"
                /\ ret' = Failure(ErrNoOptions)
                /\ UNCHANGED <<attempt, expirations, today, idx, all_options>>
             \/ /\ o.kind = "ok"                    \* lines 65, 74-79
                /\ Len(o.options) > 0
                /\ pc' = "chains"
                /\ expirations' = o.options
                /\ today' = tod
                /\ idx' = 1
                /\ all_options' = <<>>
                /\ UNCHANGED <<attempt, ret>>

\* One pass of the loop of line 80 for an expiration whose chain is not
\* fetched: the string does not parse (lines 82, 186-188) or the date lies
\* beyond the limit (lines 83-84).
SkipExpiration ==
    /\ pc = "chains"
    /\ idx <= LoopEnd(expirations)
    /\ \/ expirations[idx] = BadDate
       \/ /\ expirations[idx] # BadDate
          /\ BeyondLimit(expirations[idx], today)
    /\ idx' = idx + 1
    /\ UNCHANGED <<pc, req, attempt, price, expirations, today, all_options, ret,
                   nHist, nOpts, nChain, chainFailed, rawSeen, batchIntact,
                   malformedSeen, age>>

\* One pass of the loop of line 80 for an expiration whose chain is
\* fetched, lines 86-188.
ProcessExpiration(c) ==
    /\ pc = "chains"
    /\ idx <= LoopEnd(expirations)
    /\ expirations[idx] # BadDate
    /\ ~BeyondLimit(expirations[idx], today)
    /\ nChain' = nChain + 1
    /\ UNCHANGED <<req, attempt, price, expirations, today, ret, nHist, nOpts, age>>
    /\ \/ /\ c.kind = "raise"                       \* lines 91-93
          /\ idx' = AfterChainError(idx, expirations)
          /\ chainFailed' = TRUE
          /\ UNCHANGED <<pc, all_options, rawSeen, batchIntact, malformedSeen>>
       \/ /\ c.kind = "ok"
          /\ rawSeen' = (rawSeen \/ Len(c.calls) + Len(c.puts) > 0)
          /\ idx' = idx + 1
          /\ UNCHANGED <<pc, chainFailed>>
          /\ LET days == DaysToExp(expirations[idx], today)
             IN  IF days <= 0                       \* lines 97-98
                 THEN UNCHANGED <<all_options, batchIntact, malformedSeen>>
                 ELSE /\ all_options' =
                          ProcessChain(c, req, price, expirations[idx], days, all_options)
                      /\ batchIntact' =
                          (/\ batchIntact
                           /\ all_options' = ProcessChain(CleanChain(c), req, price,
                                                  expirations[idx], days, all_options))
                      /\ malformedSeen' =
                          (malformedSeen \/ MalformedIterated(c, req.filter_type))

\* Lines 190-205.
Finish ==
    /\ pc = "chains"
    /\ idx > LoopEnd(expirations)
    /\ pc' = "done"
    /\ all_options' = SortDesc(all_options)
    /\ ret' = IF NothingFound(all_options')
              THEN Failure(ErrNoMatch)
              ELSE [data |-> << [symbol |-> req.ticker, price |-> price,
                                 options |-> TopOptions(all_options'),
                                 max_delta_calls |-> req.max_delta_calls,
                                 max_delta_puts |-> req.max_delta_puts,
                                 filter_type |-> req.filter_type] >>,
                    error |-> NoError]
    /\ UNCHANGED <<req, attempt, price, expirations, today, idx,
                   nHist, nOpts, nChain, chainFailed, rawSeen, batchIntact,
                   malformedSeen, age>>

\* home, lines 520-533: the page is rendered and the request ends; the
\* locals of the call are gone.
Respond ==
    /\ pc = "done"
    /\ pc' = "idle"
    /\ age' = IF ret.data # NoData THEN 0 ELSE age
    /\ req' = NoRequest
    /\ attempt' = 0
    /\ price' = 0
    /\ expirations' = <<>>
    /\ today' = 0
    /\ idx' = 1
    /\ all_options' = <<>>
    /\ ret' = [data |-> NoData, error |-> NoError]
    /\ nHist' = 0
    /\ nOpts' = 0
    /\ nChain' = 0
    /\ chainFailed' = FALSE
    /\ rawSeen' = FALSE
    /\ batchIntact' = TRUE
    /\ malformedSeen' = FALSE

\* TTL seconds go by between two requests.
Tick ==
    /\ pc = "idle"
    /\ age < TTL
    /\ age' = TTL
    /\ UNCHANGED <<pc, req, attempt, price, expirations, today, idx, all_options, ret,
                   nHist, nOpts, nChain, chainFailed, rawSeen, batchIntact,
                   malformedSeen>>

Next ==
    \/ \E t \in Tickers, dp \in DeltaPairs, ft \in FilterTypes : Start(t, dp, ft)
    \/ \E h \in HistOutcomes, o \in OptOutcomes, tod \in TimesOfDay : Attempt(h, o, tod)
    \/ SkipExpiration
    \/ \E c \in ChainOutcomes : ProcessExpiration(c)
    \/ Finish
    \/ Respond
    \/ Tick

Spec == Init /\ [][Next]_vars

----------------------------------------------------------------------------
(* Properties *)

Returned == pc = "done"
HasData == pc = "done" /\ ret.data # NoData
Data == ret.data[1]
Options == Data.options
RatEq(a, b) == a.n * b.d = b.n * a.d

\* The call was made less than TTL seconds after a call that returned data.
WithinTTL == pc # "idle" /\ age < TTL

\* The expirations of the slice of line 80 whose chain the loop asks for.
Fetchable ==
    {i \in 1..LoopEnd(expirations) :
        expirations[i] # BadDate /\ ~BeyondLimit(expirations[i], today)}

\* C1 as stated: a call made less than 300 seconds after a call that
\* fetched successfully makes no call to the quote provider.
C1_CacheHitMakesNoProviderCall ==
    WithinTTL => (nHist = 0 /\ nOpts = 0 /\ nChain = 0)

\* C1 amended: a call made less than 300 seconds after a call that fetched
\* successfully has, when it returns, fetched the price at least once, and
\* any result it returns rests on a listing and on chains fetched in this
\* call.
C1_EveryCallFetches ==
    (Returned /\ WithinTTL) =>
        /\ nHist >= 1
        /\ HasData => (nOpts >= 1 /\ nChain >= 1)

C1_Witness == HasData /\ WithinTTL /\ nHist >= 1 /\ nChain >= 1

\* C2 as stated: each provider operation of the fetch stage is invoked at
\* most once per request.
C2_NoRetry == nHist <= 1 /\ nOpts <= 1

\* C2 amended: the price fetch and the listing fetch are each made at most
\* three times per request, the listing only after a price fetch that
\* succeeded, and a chain is fetched at most once for each expiration of
\* the first 15 that lies in the window; a price or listing failure is
\* returned only after the third attempt failed, and then no chain was
\* fetched.
C2_BoundedRetries ==
    /\ nHist <= 3
    /\ nOpts <= nHist
    /\ nChain <= Cardinality(Fetchable)
    /\ (Returned /\ ret.error \in {ErrFetch, ErrNoPrice, ErrNoOptionsRaised}) =>
           (nHist = 3 /\ nChain = 0)
    /\ (Returned /\ ret.error = ErrNoOptions) => nChain = 0

C2_Witness == Returned /\ ret.error = ErrNoPrice /\ nHist = 3 /\ nOpts = 2

\* C3: a call never ends in an exception and its two loops stay within
\* their ranges (3 attempts, the listing's slice); it returns a pair of
\* which exactly one component is not None, and a result carries between 1
\* and 30 contracts.
C3_ResultOrError ==
    /\ pc # "raised"
    /\ pc = "loop" => (attempt < 3 /\ nHist = attempt)
    /\ pc = "chains" => idx <= LoopEnd(expirations) + 1
    /\ Returned =>
           /\ (ret.data = NoData) # (ret.error = NoError)
           /\ ret.data # NoData => (Len(Options) >= 1 /\ Len(Options) <= 30)

\* A result cut to 30 contracts, returned by the third attempt.
C3_Witness == HasData /\ Len(Options) = 30 /\ Len(all_options) > 30 /\ nHist = 3

\* C4 as stated: when the price fetch succeeds and every listed expiration's
\* chain is fetched and has no rows, the failure is the no-options one.
C4_EmptyChainIsNoOptionsListed ==
    (Returned /\ price > 0 /\ ~rawSeen /\ ~chainFailed
        /\ nChain >= 1 /\ nChain = Len(expirations)) =>
        ret.error \in {ErrNoOptions, ErrNoOptionsRaised}

\* C5 as stated: after a chain fetch raised, the request returns a failure
\* that is not the no-matching-contracts one.
C5_ChainFailureAborts ==
    (Returned /\ chainFailed) => (ret.data = NoData /\ ret.error # ErrNoMatch)

\* C5 amended: a chain fetch that raises only drops its expiration: every
\* other expiration in the window is still fetched, and the request ends
\* with a result built from them or, when no contract was collected, with
\* the no-matching-contracts failure.
C5_ChainFailureSkipsExpiration ==
    (Returned /\ chainFailed) =>
        /\ nChain = Cardinality(Fetchable)
        /\ \/ ret.data # NoData /\ ret.error = NoError
           \/ ret.data = NoData /\ ret.error = ErrNoMatch /\ all_options = <<>>

C5_Witness == HasData /\ chainFailed /\ nChain >= 2

\* C6: the returned list is the first min(30, n) of the n collected
\* contracts sorted by annual_return, largest first, contracts of equal
\* annual_return staying in the order in which they were collected.
C6_RankedStableCapped ==
    HasData =>
        /\ Len(Options) = Min(30, Len(all_options))
        /\ Options = SubSeq(all_options, 1, Len(Options))
        /\ {all_options[i].seq : i \in 1..Len(all_options)} = 1..Len(all_options)
        /\ \A i \in 1..(Len(all_options) - 1) :
               /\ ~RatLess(all_options[i].annual_return, all_options[i + 1].annual_return)
               /\ RatEq(all_options[i].annual_return, all_options[i + 1].annual_return)
                      => all_options[i].seq < all_options[i + 1].seq

C6_Witness ==
    /\ HasData
    /\ Len(all_options) > 30
    /\ \E i \in 1..29 : /\ RatEq(Options[i].annual_return, Options[i + 1].annual_return)
                        /\ Options[i].type = "Call" /\ Options[i + 1].type = "Put"
                        /\ Options[i].expiration = Options[i + 1].expiration
    /\ \E i \in 1..29 : /\ RatLess(Options[i + 1].annual_return, Options[i].annual_return)
                        /\ Options[i].seq > Options[i + 1].seq

\* C7: in a returned result every Call has a strike above the reported
\* price and every Put a strike below it.
C7_Moneyness ==
    HasData =>
        \A i \in 1..Len(Options) :
            /\ Options[i].type = "Call" => Options[i].strike > Data.price
            /\ Options[i].type = "Put" => Options[i].strike < Data.price

C7_Witness ==
    /\ HasData
    /\ \E i, j \in 1..Len(Options) : Options[i].type = "Call" /\ Options[j].type = "Put"
    /\ Len(all_options) < 8

\* C8: in a returned result every contract has 0 < days <= 90.
C8_ExpirationWindow ==
    HasData => \A i \in 1..Len(Options) : Options[i].days > 0 /\ Options[i].days <= 90

\* A request at midnight returns contracts of 90 days and of 1 day.
C8_Witness ==
    /\ HasData
    /\ today = 0
    /\ \E i, j \in 1..Len(Options) : Options[i].days = 90 /\ Options[j].days = 1

\* C9: in a returned result every Call has delta <= max_delta_calls and
\* every Put has delta <= max_delta_puts, and the result carries the
\* thresholds and the filter type of the request.
C9_TypeCeiling ==
    HasData =>
        /\ Data.max_delta_calls = req.max_delta_calls
        /\ Data.max_delta_puts = req.max_delta_puts
        /\ Data.filter_type = req.filter_type
        /\ \A i \in 1..Len(Options) :
               /\ Options[i].type = "Call" =>
                      ~DeltaExceeds(Options[i].delta, req.max_delta_calls)
               /\ Options[i].type = "Put" =>
                      ~DeltaExceeds(Options[i].delta, req.max_delta_puts)

\* A Put above the ceiling of the calls is in the result.
C9_Witness ==
    /\ HasData
    /\ req.filter_type = "both"
    /\ \E i \in 1..Len(Options) :
           /\ Options[i].type = "Put"
           /\ DeltaExceeds(Options[i].delta, req.max_delta_calls)

\* C10 as stated: a contract whose row carries a provider delta that is
\* not zero is reported with the absolute value of that delta.
C10_ProviderDeltaAuthoritative ==
    HasData =>
        \A i \in 1..Len(Options) :
            Options[i].raw_delta # 0 =>
                RatEq(Options[i].delta, PctDelta(Abs(Options[i].raw_delta)))

\* C10 amended: every contract of a result, with or without a provider
\* delta on its row, is reported with the estimate computed from its
\* strike, the price and its days to expiration.
C10_DeltaAlwaysEstimated ==
    HasData =>
        \A i \in 1..Len(Options) :
            Options[i].delta = EstimateDelta(Options[i].strike, Data.price, Options[i].days)

C10_Witness ==
    HasData /\ \E i \in 1..Len(Options) : Options[i].raw_delta = 40

\* C11 as stated: every collected contract carries as days the number of
\* calendar days from today's date to its expiration date, whatever the
\* time of day of the request.
C11_DaysAreCalendarDays ==
    \A i \in 1..Len(all_options) : all_options[i].days = all_options[i].expiration

\* C12: malformed rows never abort the batch: each chain gives the
\* contracts that the same chain without its malformed rows gives, whatever
\* stands before or after them, and a request that went over malformed rows
\* fails only when no contract at all was collected.
C12_MalformedRowsSkipped ==
    /\ batchIntact
    /\ (Returned /\ malformedSeen) =>
           \/ ret.data # NoData /\ ret.error = NoError
           \/ ret.error = ErrNoMatch /\ all_options = <<>>

\* A request with malformed rows on both sides returns, for each of two
\* expirations, a Call and a Put that stand after them.
C12_Witness ==
    /\ HasData
    /\ malformedSeen
    /\ req.filter_type = "both"
    /\ \E i, j, m, n \in 1..Len(Options) :
           /\ Options[i].premium = 180 /\ Options[i].type = "Call" /\ Options[i].expiration = 90
           /\ Options[j].premium = 180 /\ Options[j].type = "Put" /\ Options[j].expiration = 90
           /\ Options[m].premium = 180 /\ Options[m].type = "Call" /\ Options[m].expiration = 1
           /\ Options[n].premium = 180 /\ Options[n].type = "Put" /\ Options[n].expiration = 1

====
